---- MODULE Spec2Model ----
(***************************************************************************)
(* Model of src/src/main.rs: Chunk<T, N>, a bounded Vec of at most N       *)
(* elements, and ChunkList<T, N>, a VecDeque of chunks with a cached       *)
(* elements_count, together with its two iterators.                        *)
(*                                                                         *)
(* Option<T> is modelled as a sequence: <<>> is None, <<v>> is Some(v).    *)
(* A panic is modelled by the flag fault; a panicked process stops.        *)
(***************************************************************************)
EXTENDS Integers, Sequences, FiniteSets, TLC

VARIABLES N, overflow_checks, chunks, elements_count, op, arg, ret, fault,
          rt_end, rt_vals, rt_k, rt_popped

vars == <<N, overflow_checks, chunks, elements_count, op, arg, ret, fault,
          rt_end, rt_vals, rt_k, rt_popped>>

(* ------------------------------ bounds --------------------------------- *)
MaxN == 3
MaxVal == 2
MaxCount == 4
MaxLen == 4
MaxChunks == 3

Vals == 1..MaxVal
Indices == 0..(MaxCount + 1)

(* usize arithmetic.  TLC integers are 32 bits wide, so the modulus of the *)
(* model is 2^30; the code only compares a wrapped value with N and with   *)
(* chunk lengths, which are far below either modulus.                      *)
UsizeModulus == 2^30

\* `a - b` on usize: panics with overflow checks (debug build), wraps
\* without them (release build).
SubUsize(a, b, oc) ==
    IF a >= b THEN [val |-> a - b, fault |-> FALSE]
    ELSE IF oc THEN [val |-> 0, fault |-> TRUE]
    ELSE [val |-> UsizeModulus - (b - a), fault |-> FALSE]

\* `a + b` on usize.
AddUsize(a, b, oc) ==
    IF a + b < UsizeModulus THEN [val |-> a + b, fault |-> FALSE]
    ELSE IF oc THEN [val |-> 0, fault |-> TRUE]
    ELSE [val |-> (a + b) % UsizeModulus, fault |-> FALSE]

(* ------------------------------- Chunk --------------------------------- *)
Chunk_new == <<>>

Chunk_len(c) == Len(c)

Chunk_is_empty(c) == Chunk_len(c) = 0

Chunk_is_full(c, n) == Chunk_len(c) = n

\* Vec::rotate_right(1): the last element moves to the front.
RotateRight1(s) ==
    IF Len(s) = 0 THEN s
    ELSE <<s[Len(s)]>> \o SubSeq(s, 1, Len(s) - 1)

\* Vec::remove(i) for i < len, zero-based.
VecRemove(s, i) == SubSeq(s, 1, i) \o SubSeq(s, i + 2, Len(s))

Chunk_push_back_NoCheck(c, v, n) ==
    [elements |-> Append(c, v), ok |-> TRUE]

Chunk_push_back(c, v, n) ==
    IF Chunk_is_full(c, n) THEN [elements |-> c, ok |-> FALSE]
    ELSE [elements |-> Append(c, v), ok |-> TRUE]

Chunk_push_front_NoRotate(c, v, n) ==
    IF Chunk_is_full(c, n) THEN [elements |-> c, ok |-> FALSE]
    ELSE [elements |-> Append(c, v), ok |-> TRUE]

Chunk_push_front(c, v, n) ==
    IF Chunk_is_full(c, n) THEN [elements |-> c, ok |-> FALSE]
    ELSE [elements |-> RotateRight1(Append(c, v)), ok |-> TRUE]

Chunk_pop_back_First(c) ==
    IF Len(c) = 0 THEN [elements |-> c, ret |-> <<>>]
    ELSE [elements |-> Tail(c), ret |-> <<c[1]>>]

Chunk_pop_back(c) ==
    IF Len(c) = 0 THEN [elements |-> c, ret |-> <<>>]
    ELSE [elements |-> SubSeq(c, 1, Len(c) - 1), ret |-> <<c[Len(c)]>>]

Chunk_get(c, i, n) ==
    IF i >= n THEN [ret |-> <<>>, fault |-> TRUE]
    ELSE IF i < Len(c) THEN [ret |-> <<c[i + 1]>>, fault |-> FALSE]
    ELSE [ret |-> <<>>, fault |-> FALSE]

Chunk_remove_OffByOne(c, i, n) ==
    IF i > n THEN [elements |-> c, ret |-> <<>>, fault |-> TRUE]
    ELSE IF i >= Len(c) THEN [elements |-> c, ret |-> <<>>, fault |-> FALSE]
    ELSE [elements |-> VecRemove(c, i), ret |-> <<c[i + 1]>>, fault |-> FALSE]

Chunk_remove(c, i, n) ==
    IF i >= n THEN [elements |-> c, ret |-> <<>>, fault |-> TRUE]
    ELSE IF i >= Len(c) THEN [elements |-> c, ret |-> <<>>, fault |-> FALSE]
    ELSE [elements |-> VecRemove(c, i), ret |-> <<c[i + 1]>>, fault |-> FALSE]

Chunk_pop_front(c, n) == Chunk_remove(c, 0, n)

(* ----------------------------- ChunkList ------------------------------- *)
\* The result of a ChunkList method: the fields after the call (at the
\* moment of the panic when fault), and the returned Option.
Result(cs, ec, r, f) ==
    [chunks |-> cs, elements_count |-> ec, ret |-> r, fault |-> f]

add_new_chunk_front(cs) == <<Chunk_new>> \o cs

add_new_chunk_back(cs) == Append(cs, Chunk_new)

\* VecDeque::remove(i): out of range leaves the deque alone.
remove_chunk(cs, i) ==
    IF i < Len(cs) THEN VecRemove(cs, i) ELSE cs

push_back_AlwaysNew(cs, ec, v, n, oc) ==
    LET cs2 == add_new_chunk_back(cs)
        cs3 == [cs2 EXCEPT ![Len(cs2)] = Chunk_push_back(@, v, n).elements]
        sum == AddUsize(ec, 1, oc)
    IN  IF sum.fault THEN Result(cs3, ec, <<>>, TRUE)
        ELSE Result(cs3, sum.val, <<>>, FALSE)

push_back_NoCount(cs, ec, v, n, oc) ==
    LET cs1 == IF Len(cs) = 0 THEN add_new_chunk_back(cs) ELSE cs
        cs2 == IF Chunk_is_full(cs1[Len(cs1)], n)
               THEN add_new_chunk_back(cs1) ELSE cs1
        cs3 == [cs2 EXCEPT ![Len(cs2)] = Chunk_push_back(@, v, n).elements]
    IN  Result(cs3, ec, <<>>, FALSE)

push_back(cs, ec, v, n, oc) ==
    LET cs1 == IF Len(cs) = 0 THEN add_new_chunk_back(cs) ELSE cs
        cs2 == IF Chunk_is_full(cs1[Len(cs1)], n)
               THEN add_new_chunk_back(cs1) ELSE cs1
        cs3 == [cs2 EXCEPT ![Len(cs2)] = Chunk_push_back(@, v, n).elements]
        sum == AddUsize(ec, 1, oc)
    IN  IF sum.fault THEN Result(cs3, ec, <<>>, TRUE)
        ELSE Result(cs3, sum.val, <<>>, FALSE)

push_front_AlwaysNew(cs, ec, v, n, oc) ==
    LET cs1 == add_new_chunk_front(cs)
        cs2 == [cs1 EXCEPT ![1] = Chunk_push_front(@, v, n).elements]
        sum == AddUsize(ec, 1, oc)
    IN  IF sum.fault THEN Result(cs2, ec, <<>>, TRUE)
        ELSE Result(cs2, sum.val, <<>>, FALSE)

push_front_NoCount(cs, ec, v, n, oc) ==
    LET cs1 == IF Len(cs) = 0 THEN add_new_chunk_front(cs)
               ELSE IF Chunk_is_full(cs[1], n) THEN add_new_chunk_front(cs)
               ELSE cs
        cs2 == [cs1 EXCEPT ![1] = Chunk_push_front(@, v, n).elements]
    IN  Result(cs2, ec, <<>>, FALSE)

push_front(cs, ec, v, n, oc) ==
    LET cs1 == IF Len(cs) = 0 THEN add_new_chunk_front(cs)
               ELSE IF Chunk_is_full(cs[1], n) THEN add_new_chunk_front(cs)
               ELSE cs
        cs2 == [cs1 EXCEPT ![1] = Chunk_push_front(@, v, n).elements]
        sum == AddUsize(ec, 1, oc)
    IN  IF sum.fault THEN Result(cs2, ec, <<>>, TRUE)
        ELSE Result(cs2, sum.val, <<>>, FALSE)

pop_back_KeepEmpty(cs, ec, oc) ==
    IF Len(cs) = 0 THEN Result(cs, ec, <<>>, FALSE)
    ELSE LET p == Chunk_pop_back(cs[Len(cs)])
         IN  IF p.ret = <<>> THEN Result(cs, ec, <<>>, TRUE)
             ELSE LET cs1 == [cs EXCEPT ![Len(cs)] = p.elements]
                      d == SubUsize(ec, 1, oc)
                  IN  IF d.fault THEN Result(cs1, ec, <<>>, TRUE)
                      ELSE Result(cs1, d.val, p.ret, FALSE)

pop_back_DecFirst(cs, ec, oc) ==
    LET d == SubUsize(ec, 1, oc)
    IN  IF d.fault THEN Result(cs, ec, <<>>, TRUE)
        ELSE IF Len(cs) = 0 THEN Result(cs, d.val, <<>>, FALSE)
        ELSE LET p == Chunk_pop_back(cs[Len(cs)])
             IN  IF p.ret = <<>> THEN Result(cs, ec, <<>>, TRUE)
                 ELSE Result(IF Chunk_is_empty(p.elements)
                             THEN SubSeq(cs, 1, Len(cs) - 1)
                             ELSE [cs EXCEPT ![Len(cs)] = p.elements],
                             d.val, p.ret, FALSE)

pop_back(cs, ec, oc) ==
    IF Len(cs) = 0 THEN Result(cs, ec, <<>>, FALSE)
    ELSE LET p == Chunk_pop_back(cs[Len(cs)])
         IN  IF p.ret = <<>> THEN Result(cs, ec, <<>>, TRUE)
             ELSE LET cs1 == IF Chunk_is_empty(p.elements)
                             THEN SubSeq(cs, 1, Len(cs) - 1)
                             ELSE [cs EXCEPT ![Len(cs)] = p.elements]
                      d == SubUsize(ec, 1, oc)
                  IN  IF d.fault THEN Result(cs1, ec, <<>>, TRUE)
                      ELSE Result(cs1, d.val, p.ret, FALSE)

\* The scan of remove: [chunk_i, count] when the loop ends.
RECURSIVE remove_scan(_, _, _, _)
remove_scan(cs, i, chunk_i, count) ==
    IF chunk_i >= Len(cs) THEN [chunk_i |-> chunk_i, count |-> count]
    ELSE IF count + Chunk_len(cs[chunk_i + 1]) >= i
         THEN [chunk_i |-> chunk_i, count |-> count]
         ELSE remove_scan(cs, i, chunk_i + 1,
                          count + Chunk_len(cs[chunk_i + 1]))

remove_KeepEmpty(cs, ec, i, n, oc) ==
    LET s == remove_scan(cs, i, 0, 0)
    IN  IF s.chunk_i >= Len(cs) THEN Result(cs, ec, <<>>, FALSE)
        ELSE LET element_i == SubUsize(s.count, i, oc)
             IN  IF element_i.fault THEN Result(cs, ec, <<>>, TRUE)
                 ELSE LET r == Chunk_remove(cs[s.chunk_i + 1], element_i.val, n)
                      IN  IF r.fault THEN Result(cs, ec, <<>>, TRUE)
                          ELSE LET cs1 == [cs EXCEPT ![s.chunk_i + 1] = r.elements]
                                   d == SubUsize(ec, 1, oc)
                               IN  IF d.fault THEN Result(cs1, ec, <<>>, TRUE)
                                   ELSE Result(cs1, d.val, r.ret, FALSE)

remove(cs, ec, i, n, oc) ==
    LET s == remove_scan(cs, i, 0, 0)
    IN  IF s.chunk_i >= Len(cs) THEN Result(cs, ec, <<>>, FALSE)
        ELSE LET element_i == SubUsize(s.count, i, oc)
             IN  IF element_i.fault THEN Result(cs, ec, <<>>, TRUE)
                 ELSE LET r == Chunk_remove(cs[s.chunk_i + 1], element_i.val, n)
                      IN  IF r.fault THEN Result(cs, ec, <<>>, TRUE)
                          ELSE LET cs1 == [cs EXCEPT ![s.chunk_i + 1] = r.elements]
                                   cs2 == IF Chunk_is_empty(r.elements)
                                          THEN remove_chunk(cs1, i) ELSE cs1
                                   d == SubUsize(ec, 1, oc)
                               IN  IF d.fault THEN Result(cs2, ec, <<>>, TRUE)
                                   ELSE Result(cs2, d.val, r.ret, FALSE)

pop_front(cs, ec, n, oc) == remove(cs, ec, 0, n, oc)

clear(cs, ec) == Result(<<>>, ec, <<>>, FALSE)

\* new_filled(count, value): count calls of push_back on a new list.
RECURSIVE new_filled(_, _, _, _)
new_filled(count, v, n, oc) ==
    IF count = 0 THEN Result(<<>>, 0, <<>>, FALSE)
    ELSE LET l == new_filled(count - 1, v, n, oc)
         IN  IF l.fault THEN l
             ELSE push_back(l.chunks, l.elements_count, v, n, oc)

(* ------------------------------- Iter ---------------------------------- *)
\* Iter::next from the position (chunk_i, element_i): the item and the
\* position it leaves behind.
IterResult(r, ci, ei, f) ==
    [ret |-> r, chunk_i |-> ci, element_i |-> ei, fault |-> f]

Iter_advance_Strict(chunk, inner) ==
    IF inner.element_i + 1 > Chunk_len(chunk)
    THEN IterResult(inner.ret, inner.chunk_i + 1, 0, FALSE)
    ELSE IterResult(inner.ret, inner.chunk_i, inner.element_i + 1, FALSE)

Iter_advance_NoWrap(chunk, inner) ==
    IterResult(inner.ret, inner.chunk_i, inner.element_i + 1, FALSE)

\* The tail of Iter::next after `value` is computed: advance the position,
\* testing it against the chunk fetched when the call began.
Iter_advance(chunk, inner) ==
    IF inner.element_i + 1 >= Chunk_len(chunk)
    THEN IterResult(inner.ret, inner.chunk_i + 1, 0, FALSE)
    ELSE IterResult(inner.ret, inner.chunk_i, inner.element_i + 1, FALSE)

RECURSIVE Iter_next(_, _, _, _)
Iter_next(cs, chunk_i, element_i, n) ==
    IF chunk_i >= Len(cs) THEN IterResult(<<>>, chunk_i, element_i, FALSE)
    ELSE LET chunk == cs[chunk_i + 1]
             g == Chunk_get(chunk, element_i, n)
         IN  IF g.fault THEN IterResult(<<>>, chunk_i, element_i, TRUE)
             ELSE LET inner == IF g.ret = <<>>
                               THEN Iter_next(cs, chunk_i + 1, 0, n)
                               ELSE IterResult(g.ret, chunk_i, element_i, FALSE)
                  IN  IF inner.fault THEN inner
                      ELSE Iter_advance(chunk, inner)

\* Iterator::nth(k): k calls of next whose items are dropped, stopping at
\* the first None, then one more call.
RECURSIVE Iter_nth(_, _, _, _, _)
Iter_nth(cs, chunk_i, element_i, k, n) ==
    LET x == Iter_next(cs, chunk_i, element_i, n)
    IN  IF k = 0 \/ x.fault \/ x.ret = <<>> THEN x
        ELSE Iter_nth(cs, x.chunk_i, x.element_i, k - 1, n)

get_OffByOne(cs, i, n) ==
    LET x == Iter_nth(cs, 0, 0, i + 1, n)
    IN  [ret |-> x.ret, fault |-> x.fault]

get(cs, i, n) ==
    LET x == Iter_nth(cs, 0, 0, i, n)
    IN  [ret |-> x.ret, fault |-> x.fault]

\* The items a caller of next() receives up to the first None.
RECURSIVE Iter_collect(_, _, _, _)
Iter_collect(cs, chunk_i, element_i, n) ==
    LET x == Iter_next(cs, chunk_i, element_i, n)
    IN  IF x.fault THEN [items |-> <<>>, fault |-> TRUE]
        ELSE IF x.ret = <<>> THEN [items |-> <<>>, fault |-> FALSE]
        ELSE LET rest == Iter_collect(cs, x.chunk_i, x.element_i, n)
             IN  [items |-> x.ret \o rest.items, fault |-> rest.fault]

iter(cs, n) == Iter_collect(cs, 0, 0, n)

(* ----------------------------- IntoIter -------------------------------- *)
IntoIter_next_Back(cs, n) ==
    IF Len(cs) = 0 THEN [chunks |-> cs, ret |-> <<>>, fault |-> FALSE]
    ELSE LET p == Chunk_pop_back(cs[1])
         IN  [chunks |-> IF Chunk_is_empty(p.elements)
                         THEN Tail(cs)
                         ELSE [cs EXCEPT ![1] = p.elements],
              ret |-> p.ret, fault |-> FALSE]

IntoIter_next(cs, n) ==
    IF Len(cs) = 0 THEN [chunks |-> cs, ret |-> <<>>, fault |-> FALSE]
    ELSE LET p == Chunk_pop_front(cs[1], n)
         IN  IF p.fault THEN [chunks |-> cs, ret |-> <<>>, fault |-> TRUE]
             ELSE [chunks |-> IF Chunk_is_empty(p.elements)
                              THEN Tail(cs)
                              ELSE [cs EXCEPT ![1] = p.elements],
                   ret |-> p.ret, fault |-> FALSE]

\* The items a caller of IntoIter::next receives up to the first None, and
\* the chunks the iterator still owns then.
RECURSIVE IntoIter_collect(_, _)
IntoIter_collect(cs, n) ==
    LET x == IntoIter_next(cs, n)
    IN  IF x.fault THEN [items |-> <<>>, chunks |-> x.chunks, fault |-> TRUE]
        ELSE IF x.ret = <<>>
             THEN [items |-> <<>>, chunks |-> x.chunks, fault |-> FALSE]
        ELSE LET rest == IntoIter_collect(x.chunks, n)
             IN  [items |-> x.ret \o rest.items, chunks |-> rest.chunks,
                  fault |-> rest.fault]

into_iter(cs, n) == IntoIter_collect(cs, n)

(* ------------------------- the state machine --------------------------- *)
\* ChunkList::new(), for a capacity N >= 1 and either build profile.
new == [chunks |-> <<>>, elements_count |-> 0]

NoScript ==
    /\ rt_end = "none"
    /\ rt_vals = <<>>
    /\ rt_k = 0
    /\ rt_popped = <<>>

Init ==
    /\ N \in 1..MaxN
    /\ overflow_checks \in BOOLEAN
    /\ chunks = new.chunks
    /\ elements_count = new.elements_count
    /\ op = "new"
    /\ arg = 0
    /\ ret = <<>>
    /\ fault = FALSE
    /\ NoScript

\* The list can still be called: no panic so far, and not moved into an
\* IntoIter.
Live == ~fault /\ op # "into_iter"

\* A call of a &mut self method: the fields and the outcome it leaves.
Call(name, a, r) ==
    /\ chunks' = r.chunks
    /\ elements_count' = r.elements_count
    /\ op' = name
    /\ arg' = a
    /\ ret' = r.ret
    /\ fault' = r.fault
    /\ UNCHANGED <<N, overflow_checks>>

\* A call of a &self method: only the outcome changes.
Query(name, a, r, f) ==
    /\ op' = name
    /\ arg' = a
    /\ ret' = r
    /\ fault' = f
    /\ UNCHANGED <<N, overflow_checks, chunks, elements_count>>

Script == <<rt_end, rt_vals, rt_k, rt_popped>>

\* The number of elements the chunks hold.
RECURSIVE StoredCount(_)
StoredCount(cs) ==
    IF Len(cs) = 0 THEN 0 ELSE Chunk_len(Head(cs)) + StoredCount(Tail(cs))

\* The list is built by new_filled instead of new.
NewFilled ==
    /\ op = "new"
    /\ \E count \in 0..MaxCount, v \in Vals :
          Call("new_filled", count, new_filled(count, v, N, overflow_checks))
    /\ UNCHANGED Script

PushBack ==
    /\ Live
    /\ elements_count < MaxCount
    /\ StoredCount(chunks) < MaxCount
    /\ \E v \in Vals :
          Call("push_back", v, push_back(chunks, elements_count, v, N, overflow_checks))
    /\ UNCHANGED Script

PushFront ==
    /\ Live
    /\ elements_count < MaxCount
    /\ StoredCount(chunks) < MaxCount
    /\ \E v \in Vals :
          Call("push_front", v, push_front(chunks, elements_count, v, N, overflow_checks))
    /\ UNCHANGED Script

PopBack ==
    /\ Live
    /\ Call("pop_back", 0, pop_back(chunks, elements_count, overflow_checks))
    /\ UNCHANGED Script

PopFront ==
    /\ Live
    /\ Call("pop_front", 0, pop_front(chunks, elements_count, N, overflow_checks))
    /\ UNCHANGED Script

Remove ==
    /\ Live
    /\ \E i \in Indices :
          Call("remove", i, remove(chunks, elements_count, i, N, overflow_checks))
    /\ UNCHANGED Script

Clear ==
    /\ Live
    /\ Call("clear", 0, clear(chunks, elements_count))
    /\ UNCHANGED Script

Get ==
    /\ Live
    /\ \E i \in Indices :
          LET g == get(chunks, i, N) IN Query("get", i, g.ret, g.fault)
    /\ UNCHANGED Script

IterAll ==
    /\ Live
    /\ LET it == iter(chunks, N) IN Query("iter", 0, it.items, it.fault)
    /\ UNCHANGED Script

IntoIterAll ==
    /\ Live
    /\ LET it == into_iter(chunks, N)
       IN  Call("into_iter", 0, Result(it.chunks, elements_count, it.items, it.fault))
    /\ UNCHANGED Script

Next ==
    \/ PushBack
    \/ PushFront
    \/ PopBack
    \/ PopFront
    \/ Remove
    \/ Clear
    \/ Get
    \/ IterAll
    \/ IntoIterAll
    \/ NewFilled

Spec == Init /\ [][Next]_vars

(* ------------- the public chunk management methods as calls ------------ *)
AddNewChunkFront ==
    /\ Live
    /\ Len(chunks) < MaxChunks
    /\ elements_count <= MaxCount
    /\ Call("add_new_chunk_front", 0,
            Result(add_new_chunk_front(chunks), elements_count, <<>>, FALSE))
    /\ UNCHANGED Script

AddNewChunkBack ==
    /\ Live
    /\ Len(chunks) < MaxChunks
    /\ elements_count <= MaxCount
    /\ Call("add_new_chunk_back", 0,
            Result(add_new_chunk_back(chunks), elements_count, <<>>, FALSE))
    /\ UNCHANGED Script

RemoveChunk ==
    /\ Live
    /\ \E i \in 0..MaxChunks :
          Call("remove_chunk", i,
               Result(remove_chunk(chunks, i), elements_count,
                      IF i < Len(chunks) THEN <<chunks[i + 1]>> ELSE <<>>,
                      FALSE))
    /\ UNCHANGED Script

NextPub ==
    \/ PushBack
    \/ PushFront
    \/ PopBack
    \/ PopFront
    \/ Remove
    \/ Clear
    \/ Get
    \/ IterAll
    \/ IntoIterAll
    \/ NewFilled
    \/ AddNewChunkFront
    \/ AddNewChunkBack
    \/ RemoveChunk

SpecPub == Init /\ [][NextPub]_vars

(* --------------- scripted round trip at one end of the list ------------ *)
\* The sequences over S of length at most k.
SeqsUpTo(S, k) == UNION {[1..m -> S] : m \in 0..k}

InitRT ==
    /\ N \in 1..MaxN
    /\ overflow_checks \in BOOLEAN
    /\ chunks = new.chunks
    /\ elements_count = new.elements_count
    /\ op = "new"
    /\ arg = 0
    /\ ret = <<>>
    /\ fault = FALSE
    /\ rt_end \in {"front", "back"}
    /\ rt_vals \in SeqsUpTo(Vals, MaxLen)
    /\ rt_k = 0
    /\ rt_popped = <<>>

RTPushFront ==
    /\ Live
    /\ rt_end = "front"
    /\ rt_k < Len(rt_vals)
    /\ Call("push_front", rt_vals[rt_k + 1],
            push_front(chunks, elements_count, rt_vals[rt_k + 1], N, overflow_checks))
    /\ rt_k' = rt_k + 1
    /\ UNCHANGED <<rt_end, rt_vals, rt_popped>>

RTPushBack ==
    /\ Live
    /\ rt_end = "back"
    /\ rt_k < Len(rt_vals)
    /\ Call("push_back", rt_vals[rt_k + 1],
            push_back(chunks, elements_count, rt_vals[rt_k + 1], N, overflow_checks))
    /\ rt_k' = rt_k + 1
    /\ UNCHANGED <<rt_end, rt_vals, rt_popped>>

RTPopFront ==
    /\ Live
    /\ rt_end = "front"
    /\ rt_k = Len(rt_vals)
    /\ Len(rt_popped) <= Len(rt_vals)
    /\ Call("pop_front", 0, pop_front(chunks, elements_count, N, overflow_checks))
    /\ rt_popped' = Append(rt_popped, ret')
    /\ UNCHANGED <<rt_end, rt_vals, rt_k>>

RTPopBack ==
    /\ Live
    /\ rt_end = "back"
    /\ rt_k = Len(rt_vals)
    /\ Len(rt_popped) <= Len(rt_vals)
    /\ Call("pop_back", 0, pop_back(chunks, elements_count, overflow_checks))
    /\ rt_popped' = Append(rt_popped, ret')
    /\ UNCHANGED <<rt_end, rt_vals, rt_k>>

NextRT ==
    \/ RTPushFront
    \/ RTPushBack
    \/ RTPopFront
    \/ RTPopBack

SpecRT == InitRT /\ [][NextRT]_vars

(* ------------------- the methods of a single Chunk --------------------- *)
\* One chunk of capacity N with any contents its own methods allow, held
\* as the only entry of chunks.  A push returns its bool as <<ok>>.
InitChunk ==
    /\ N \in 1..MaxN
    /\ overflow_checks \in BOOLEAN
    /\ \E c \in SeqsUpTo(Vals, MaxN) : Len(c) <= N /\ chunks = <<c>>
    /\ elements_count = 0
    /\ op = "new"
    /\ arg = 0
    /\ ret = <<>>
    /\ fault = FALSE
    /\ NoScript

ChunkIndices == 0..(MaxN + 1)

\* A call of a Chunk method on the chunk.
ChunkCall(name, a, c, r, f) ==
    /\ ~fault
    /\ chunks' = <<c>>
    /\ op' = name
    /\ arg' = a
    /\ ret' = r
    /\ fault' = f
    /\ UNCHANGED <<N, overflow_checks, elements_count>>
    /\ UNCHANGED Script

ChunkPushBack ==
    \E v \in Vals :
        LET r == Chunk_push_back(chunks[1], v, N)
        IN  ChunkCall("Chunk::push_back", v, r.elements, <<r.ok>>, FALSE)

ChunkPushFront ==
    \E v \in Vals :
        LET r == Chunk_push_front(chunks[1], v, N)
        IN  ChunkCall("Chunk::push_front", v, r.elements, <<r.ok>>, FALSE)

ChunkPopBack ==
    LET r == Chunk_pop_back(chunks[1])
    IN  ChunkCall("Chunk::pop_back", 0, r.elements, r.ret, FALSE)

ChunkPopFront ==
    LET r == Chunk_pop_front(chunks[1], N)
    IN  ChunkCall("Chunk::pop_front", 0, r.elements, r.ret, r.fault)

ChunkGet ==
    \E i \in ChunkIndices :
        LET r == Chunk_get(chunks[1], i, N)
        IN  ChunkCall("Chunk::get", i, chunks[1], r.ret, r.fault)

ChunkRemove ==
    \E i \in ChunkIndices :
        LET r == Chunk_remove(chunks[1], i, N)
        IN  ChunkCall("Chunk::remove", i, r.elements, r.ret, r.fault)

NextChunk ==
    \/ ChunkPushBack
    \/ ChunkPushFront
    \/ ChunkPopBack
    \/ ChunkPopFront
    \/ ChunkGet
    \/ ChunkRemove

SpecChunk == InitChunk /\ [][NextChunk]_vars

(* ------------------------------ properties ----------------------------- *)
\* The logical sequence: the chunks concatenated front to back.
RECURSIVE Concat(_)
Concat(cs) == IF Len(cs) = 0 THEN <<>> ELSE Head(cs) \o Concat(Tail(cs))

\* The sum of the lengths of the chunks.
RECURSIVE SumLen(_)
SumLen(cs) == IF Len(cs) = 0 THEN 0 ELSE Len(Head(cs)) + SumLen(Tail(cs))

\* s without its last element.
Front(s) == SubSeq(s, 1, Len(s) - 1)

\* C1: every push_front, push_back, pop_front and pop_back step acts on the
\* concatenation of the chunks as the same call acts on an abstract
\* double-ended sequence, and a pop returns what the abstract sequence
\* returns; no such step panics.
C1_Step ==
    /\ op' = "push_front" =>
          ~fault' /\ Concat(chunks') = <<arg'>> \o Concat(chunks)
    /\ op' = "push_back" =>
          ~fault' /\ Concat(chunks') = Append(Concat(chunks), arg')
    /\ op' = "pop_front" =>
          /\ ~fault'
          /\ IF Concat(chunks) = <<>>
             THEN ret' = <<>> /\ Concat(chunks') = <<>>
             ELSE ret' = <<Head(Concat(chunks))>>
                  /\ Concat(chunks') = Tail(Concat(chunks))
    /\ op' = "pop_back" =>
          /\ ~fault'
          /\ IF Concat(chunks) = <<>>
             THEN ret' = <<>> /\ Concat(chunks') = <<>>
             ELSE ret' = <<Concat(chunks)[Len(Concat(chunks))]>>
                  /\ Concat(chunks') = Front(Concat(chunks))

C1_DequeRefinement == [][C1_Step]_vars

\* A pop at the front returned an element while the list spans several
\* chunks whose front chunk is partly filled.
C1_Witness ==
    /\ op = "pop_front"
    /\ ret # <<>>
    /\ ~fault
    /\ Len(chunks) >= 2
    /\ Len(chunks[1]) < N

\* C2: in every state reached by completed push, pop, remove and clear
\* calls, the cached elements_count is the sum of the chunk lengths.
C2_CountIsSum == Live => elements_count = SumLen(chunks)

\* C3: after clear(), elements_count() is 0, chunks_count() is 0 and get(0)
\* reports no element.
C3_AfterClear ==
    op = "clear" =>
        /\ elements_count = 0
        /\ Len(chunks) = 0
        /\ get(chunks, 0, N) = [ret |-> <<>>, fault |-> FALSE]

\* C4: every chunk of the chunk sequence holds between 1 and N elements.
C4_ChunkLengths ==
    \A j \in 1..Len(chunks) : Len(chunks[j]) >= 1 /\ Len(chunks[j]) <= N

\* A pop at the back returned an element and left a full back chunk behind
\* in a list with capacity above one.
C4_Witness ==
    /\ op = "pop_back"
    /\ ret # <<>>
    /\ N >= 2
    /\ Len(chunks) >= 1
    /\ Len(chunks[Len(chunks)]) = N

\* The chunks after the zero-based logical position i is removed: the
\* owning chunk loses that element and is dropped when it becomes empty.
RECURSIVE RemoveAt(_, _)
RemoveAt(cs, i) ==
    IF Len(cs) = 0 THEN cs
    ELSE IF i < Len(Head(cs))
         THEN IF Len(Head(cs)) = 1 THEN Tail(cs)
              ELSE <<VecRemove(Head(cs), i)>> \o Tail(cs)
         ELSE <<Head(cs)>> \o RemoveAt(Tail(cs), i - Len(Head(cs)))

\* C5: remove(i) with i below the number of stored elements returns the
\* i-th logical element, keeps the others in order, drops exactly the chunk
\* that became empty and decrements elements_count.
C5_Step ==
    (op' = "remove" /\ arg' < Len(Concat(chunks))) =>
        /\ ~fault'
        /\ ret' = <<Concat(chunks)[arg' + 1]>>
        /\ chunks' = RemoveAt(chunks, arg')
        /\ elements_count' = elements_count - 1

C5_RemoveInRange == [][C5_Step]_vars

\* C6: remove(i) with i at or above the number of stored elements reports
\* no element, does not panic, and leaves the list unchanged.
C6_Step ==
    (op' = "remove" /\ arg' >= Len(Concat(chunks))) =>
        /\ ~fault'
        /\ ret' = <<>>
        /\ chunks' = chunks
        /\ elements_count' = elements_count

C6_RemoveOutOfRange == [][C6_Step]_vars

\* C7: get(i) returns the i-th element of the logical sequence when i is
\* below the number of stored elements, no element otherwise, and leaves
\* the list unchanged.
C7_Step ==
    op' = "get" =>
        /\ ~fault'
        /\ ret' = IF arg' < Len(Concat(chunks))
                  THEN <<Concat(chunks)[arg' + 1]>> ELSE <<>>
        /\ chunks' = chunks
        /\ elements_count' = elements_count

C8_Step ==
    op' = "iter" =>
        /\ ~fault'
        /\ ret' = Concat(chunks)
        /\ chunks' = chunks
        /\ elements_count' = elements_count
        /\ iter(chunks', N) = [items |-> ret', fault |-> FALSE]

C8_Iter == [][C8_Step]_vars

\* Borrowing iteration ran over several chunks, the first partly filled.
C8_Witness ==
    /\ op = "iter"
    /\ Len(chunks) >= 2
    /\ Len(chunks[1]) < N
    /\ Len(ret) >= 3

\* C9: consuming iteration yields the items borrowing iteration yields on
\* the same list, in the same order, and ends with no chunks left.
C9_Step ==
    op' = "into_iter" =>
        /\ ~fault'
        /\ ret' = iter(chunks, N).items
        /\ Len(ret') = SumLen(chunks)
        /\ chunks' = <<>>

C9_IntoIter == [][C9_Step]_vars

\* Consuming iteration drained more elements than one chunk holds.
C9_Witness ==
    /\ op = "into_iter"
    /\ Len(ret) > N
    /\ \E j \in 1..(Len(ret) - 1) : ret[j] # ret[j + 1]

\* C10: after v1..vn are pushed at one end of an empty list, the pops at
\* that end return vn..v1 in that order and the pop after them reports no
\* element.
C10_RoundTrip ==
    /\ ~fault
    /\ \A j \in 1..Len(rt_popped) :
          rt_popped[j] = IF j <= Len(rt_vals)
                         THEN <<rt_vals[Len(rt_vals) + 1 - j]>> ELSE <<>>

\* A round trip of at least three values, not all equal, over more than
\* one chunk, ran to the pop that reports no element.
C10_Witness ==
    /\ rt_end # "none"
    /\ Len(rt_vals) >= 3
    /\ Len(rt_vals) > N
    /\ rt_vals[1] # rt_vals[2]
    /\ Len(rt_popped) = Len(rt_vals) + 1

\* C11: elements_count() is 0 after new() and then follows the calls: a
\* push adds one, a pop that returns an element subtracts one, a pop that
\* reports no element leaves it alone; so it equals the pushes minus the
\* pops that returned an element.
C11_Step ==
    /\ op' \in {"push_front", "push_back"} =>
          ~fault' /\ elements_count' = elements_count + 1
    /\ (op' \in {"pop_front", "pop_back"} /\ ret' # <<>>) =>
          ~fault' /\ elements_count' = elements_count - 1
    /\ (op' \in {"pop_front", "pop_back"} /\ ret' = <<>>) =>
          ~fault' /\ elements_count' = elements_count

C11_CountFollowsCalls == (elements_count = 0) /\ [][C11_Step]_vars

\* A pop at the back returned an element and left a positive count behind.
C11_Witness ==
    /\ op = "pop_back"
    /\ ret # <<>>
    /\ elements_count >= 2
    /\ Len(chunks) >= 2

\* C12: pop_front() and pop_back() on a list with no chunks report no
\* element and leave the chunk sequence and elements_count unchanged.
C12_Step ==
    (op' \in {"pop_front", "pop_back"} /\ Len(chunks) = 0) =>
        /\ ~fault'
        /\ ret' = <<>>
        /\ chunks' = chunks
        /\ elements_count' = elements_count

C12_PopOnNoChunks == [][C12_Step]_vars

\* A pop at the back found no chunks in a list that was cleared while it
\* held elements.
C12_Witness ==
    /\ op = "pop_back"
    /\ ret = <<>>
    /\ ~fault
    /\ Len(chunks) = 0
    /\ elements_count >= 1

\* C13: borrowing iteration, from iter() or inside get(), never calls
\* Chunk::get with an index at or above N, so it never panics; this holds
\* for every list the public methods can build, empty chunks included.
C13_IterInCapacity == op \in {"iter", "get"} => ~fault

\* Borrowing iteration ran over a list that holds a full chunk of capacity
\* above one and an empty chunk.
C13_Witness ==
    /\ op = "iter"
    /\ ~fault
    /\ N >= 2
    /\ \E j \in 1..Len(chunks) : Len(chunks[j]) = N
    /\ \E j \in 1..Len(chunks) : Len(chunks[j]) = 0

\* C18: when the chunk sequence holds an empty chunk, borrowing iteration
\* still yields every stored element once, in front-to-back order.
C18_Step ==
    (op' = "iter" /\ \E j \in 1..Len(chunks) : Len(chunks[j]) = 0) =>
        ~fault' /\ ret' = Concat(chunks)

C18_IterOverEmptyChunk == [][C18_Step]_vars

\* C14: Chunk::push_back and Chunk::push_front on a chunk of N elements
\* return false and leave the chunk alone; on a shorter chunk they return
\* true and put the value at the end, respectively the start; the length
\* never exceeds N.
C14_Step ==
    /\ op' = "Chunk::push_back" =>
          IF Len(chunks[1]) = N
          THEN ret' = <<FALSE>> /\ chunks' = chunks
          ELSE ret' = <<TRUE>> /\ chunks'[1] = Append(chunks[1], arg')
    /\ op' = "Chunk::push_front" =>
          IF Len(chunks[1]) = N
          THEN ret' = <<FALSE>> /\ chunks' = chunks
          ELSE ret' = <<TRUE>> /\ chunks'[1] = <<arg'>> \o chunks[1]
    /\ Len(chunks'[1]) <= N

C14_ChunkPush == [][C14_Step]_vars

\* A push at the front of a chunk of capacity above one was refused
\* because the chunk is full.
C14_Witness ==
    /\ op = "Chunk::push_front"
    /\ ret = <<FALSE>>
    /\ N >= 2
    /\ Len(chunks[1]) = N

\* C15: Chunk::get(i) and Chunk::remove(i) panic exactly when i >= N; for
\* len <= i < N they report no element and leave the chunk alone; for
\* i < len, get returns the i-th element and remove deletes and returns it,
\* the later elements moving down by one.
C15_Step ==
    op' \in {"Chunk::get", "Chunk::remove"} =>
        LET c == chunks[1]
            i == arg'
        IN  /\ fault' <=> i >= N
            /\ (i >= Len(c) \/ op' = "Chunk::get") => chunks' = chunks
            /\ i >= Len(c) => ret' = <<>>
            /\ i < Len(c) => ~fault' /\ ret' = <<c[i + 1]>>
            /\ (i < Len(c) /\ op' = "Chunk::remove") =>
                  /\ Len(chunks'[1]) = Len(c) - 1
                  /\ \A j \in 1..(Len(c) - 1) :
                        chunks'[1][j] = IF j <= i THEN c[j] ELSE c[j + 1]

C15_ChunkGetRemove == [][C15_Step]_vars

\* Chunk::remove took an element that is not the last out of a chunk.
C15_Witness ==
    /\ op = "Chunk::remove"
    /\ ret # <<>>
    /\ ~fault
    /\ Len(chunks[1]) > arg

\* C16: no push_front, push_back, pop_front, pop_back or clear call panics:
\* a pop on a list with chunks finds an element to return, and a push finds
\* or creates a chunk with room, so the stored elements grow by one.
C16_Step ==
    /\ op' \in {"push_front", "push_back", "pop_front", "pop_back", "clear"} =>
          ~fault'
    /\ (op' \in {"pop_front", "pop_back"} /\ Len(chunks) > 0) =>
          ret' # <<>>
    /\ op' \in {"push_front", "push_back"} =>
          SumLen(chunks') = SumLen(chunks) + 1

C16_NoFault == [][C16_Step]_vars

\* A pop at the front emptied the front chunk of a list with more chunks.
C16_Witness ==
    /\ op = "pop_front"
    /\ ret # <<>>
    /\ ~fault
    /\ N >= 2
    /\ Len(chunks) >= 1
    /\ Len(chunks[1]) = N

\* ceil(a / b) for b >= 1.
CeilDiv(a, b) == (a + b - 1) \div b

\* C17: push_back adds a chunk exactly when there is no chunk or the back
\* chunk is full, push_front exactly when there is no chunk or the front
\* chunk is full; a list built by push_back alone, as new_filled builds
\* it, has ceil(elements_count / N) chunks.
C17_Step ==
    /\ op' = "push_back" =>
          Len(chunks') =
             IF Len(chunks) = 0 \/ Len(chunks[Len(chunks)]) = N
             THEN Len(chunks) + 1 ELSE Len(chunks)
    /\ op' = "push_front" =>
          Len(chunks') =
             IF Len(chunks) = 0 \/ Len(chunks[1]) = N
             THEN Len(chunks) + 1 ELSE Len(chunks)
    /\ op' = "new_filled" =>
          /\ elements_count' = arg'
          /\ Len(chunks') = CeilDiv(elements_count', N)

C17_ChunkCreation == [][C17_Step]_vars

\* new_filled built a list whose last chunk is partly filled.
C17_Witness ==
    /\ op = "new_filled"
    /\ Len(chunks) >= 2
    /\ Len(chunks[Len(chunks)]) < N

\* C19: every chunk other than the front-most and the back-most one holds
\* exactly N elements.
C19_InnerChunksFull ==
    \A j \in 2..(Len(chunks) - 1) : Len(chunks[j]) = N

\* A list of at least three chunks whose two end chunks are partly filled.
C19_Witness ==
    /\ Len(chunks) >= 3
    /\ Len(chunks[1]) < N
    /\ Len(chunks[Len(chunks)]) < N

\* C20: elements_count is never below the number of stored elements and
\* never wraps, and no pop_front, pop_back or remove(0), the calls that
\* reach a decrement, panics.
C20_NoUnderflow ==
    /\ SumLen(chunks) <= elements_count
    /\ elements_count <= MaxCount
    /\ (op \in {"pop_front", "pop_back"} \/ (op = "remove" /\ arg = 0)) =>
          ~fault

\* remove(0) took the only element of a list whose count was stale after
\* a clear, leaving a positive count.
C20_Witness ==
    /\ op = "remove"
    /\ arg = 0
    /\ ret # <<>>
    /\ Len(chunks) = 0
    /\ elements_count >= 1

====
